---- MODULE Spec2Model ----
(***************************************************************************)
(* Model of the speech_censor package (has-s/f-kit): the word classifier   *)
(* (CurseBase.is_curse), the phrase scanner (censor_words), the interval   *)
(* projection (generate_ffmpeg_times) and the audio splice (censor_audio,  *)
(* make_mute, make_beep).                                                  *)
(*                                                                         *)
(* Time.  The program holds times as floats in seconds.  The model holds   *)
(* a time as an integer number of ticks, TicksPerMs ticks to the           *)
(* millisecond, and computes int(t * 1000) and int(d * SAMPLE_RATE) by      *)
(* exact integer arithmetic with truncation toward zero, as int() does.    *)
(*                                                                         *)
(* Audio.  An AudioSegment is modelled by its sequence of sample frames    *)
(* (one element per frame, all channels together).  A frame of the         *)
(* original buffer is its own 1-based position (a positive number), a      *)
(* frame of silence is 0 and frame j of a synthesized tone is -(j+1), so   *)
(* that the origin of every output frame can be read off the output.  The  *)
(* sequence is held run-length encoded: a run [k, at, n] stands for n      *)
(* consecutive frames of kind k ("o" original, "z" silence, "b" tone)      *)
(* the first of which is frame at of its source; adjacent runs that        *)
(* continue each other are merged, so that two buffers are equal exactly   *)
(* when their frames are.  len(), slicing and concatenation follow pydub's *)
(* AudioSegment, as used by censor_audio: len() is a rounded number of     *)
(* milliseconds, a slice is taken at millisecond positions.                *)
(***************************************************************************)
EXTENDS Integers, Sequences, FiniteSets, TLC

\* ------------------------------------------------------------------ bounds
TicksPerMs == 2       \* resolution of the modelled time stamps
MaxLenTicks == 4      \* longest original buffer, in ticks
MaxEarlyTicks == 2    \* ticks before 0 of the earliest interval bound
MaxTick == 2          \* latest interval bound, in ticks
MaxIntervals == 2     \* longest interval list passed to censor_audio
MaxDriftLenTicks == 8 \* longest original buffer of the drift runs, in ticks
MaxDriftIntervals == 3 \* most intervals of a drift run
MaxWordLen == 3       \* longest word passed to is_curse
MaxCurseLen == 2      \* longest entry of curse_words and whitelist
MaxTranscriptWords == 2 \* most words of a transcript
SubSamples == 4       \* resolution of the synthesis durations, in parts of a sample
MaxSynthUnits == 11   \* longest synthesis duration, in such parts
MaxWindow == 2        \* largest window_size
MaxRuns == 2          \* most runs of the main script on one input
MaxFlagIndex == 1     \* largest index of a flags dictionary
MaxNegativeIndex == 1 \* most negative index of a flags dictionary

\* ------------------------------------------------------- program constants
SAMPLE_RATE == 48000
TooManyMissingLimitMs == 2
FuzzyThresholdDefault == 80

\* ----------------------------------------------------------- arithmetic
Min(a, b) == IF a < b THEN a ELSE b
Max(a, b) == IF a > b THEN a ELSE b

\* int(x) of Python for the rational x = n / d, d > 0: truncation toward zero
PyInt(n, d) == IF n >= 0 THEN n \div d ELSE -((-n) \div d)

\* round(x) of Python 3 for the rational x = n / d, n >= 0, d > 0:
\* round half to even
PyRound(n, d) ==
    LET q == n \div d
        r == n % d
    IN  IF 2 * r < d THEN q
        ELSE IF 2 * r > d THEN q + 1
        ELSE IF q % 2 = 0 THEN q ELSE q + 1

\* int(t_sec * 1000) for a time of t ticks
ToMs(t) == PyInt(t, TicksPerMs)

\* int(duration_sec * SAMPLE_RATE) for a duration of d ticks
NumSamples(d) == PyInt(d * SAMPLE_RATE, 1000 * TicksPerMs)

\* int(duration * SAMPLE_RATE) for a duration of num / den seconds
SamplesOf(num, den) == PyInt(num * SAMPLE_RATE, den)

\* ------------------------------------------------------------ frames
Silence == 0
OrigFrame(i) == i
BeepFrame(j) == -(j + 1)

\* n frames of silence
Zeros(n) == IF n > 0 THEN << [k |-> "z", at |-> 0, n |-> n] >> ELSE << >>

\* frames first..first+n-1 of the original recording
OrigRun(first, n) == IF n > 0 THEN << [k |-> "o", at |-> first, n |-> n] >> ELSE << >>

\* frames 0..n-1 of a synthesized tone
BeepRun(n) == IF n > 0 THEN << [k |-> "b", at |-> 0, n |-> n] >> ELSE << >>

\* number of frames of a buffer: len(seg._data) // frame_width
RECURSIVE NFrames(_)
NFrames(b) == IF b = << >> THEN 0 ELSE Head(b).n + NFrames(Tail(b))

\* the frame at 1-based position p of a buffer
RECURSIVE FrameAt(_, _)
FrameAt(b, p) ==
    LET h == Head(b)
    IN  IF p > h.n THEN FrameAt(Tail(b), p - h.n)
        ELSE IF h.k = "z" THEN Silence
        ELSE IF h.k = "o" THEN OrigFrame(h.at + p - 1)
        ELSE BeepFrame(h.at + p - 1)

Continues(r1, r2) ==
    /\ r1.k = r2.k
    /\ r1.k = "z" \/ r2.at = r1.at + r1.n

\* seg1._data + seg2._data
Cat(b1, b2) ==
    IF b1 = << >> THEN b2
    ELSE IF b2 = << >> THEN b1
    ELSE LET l == b1[Len(b1)]
             h == Head(b2)
         IN  IF Continues(l, h)
             THEN SubSeq(b1, 1, Len(b1) - 1) \o << [l EXCEPT !.n = l.n + h.n] >> \o Tail(b2)
             ELSE b1 \o b2

\* the buffer without its first c frames, c >= 0
RECURSIVE DropFrames(_, _)
DropFrames(b, c) ==
    IF c = 0 \/ b = << >> THEN b
    ELSE LET h == Head(b)
         IN  IF h.n <= c THEN DropFrames(Tail(b), c - h.n)
             ELSE << [k |-> h.k, at |-> IF h.k = "z" THEN 0 ELSE h.at + c, n |-> h.n - c] >>
                  \o Tail(b)

\* the first c frames of the buffer, c >= 0
RECURSIVE TakeFrames(_, _)
TakeFrames(b, c) ==
    IF c = 0 \/ b = << >> THEN << >>
    ELSE LET h == Head(b)
         IN  IF h.n <= c THEN << h >> \o TakeFrames(Tail(b), c - h.n)
             ELSE << [h EXCEPT !.n = c] >>

\* ------------------------------------------------- AudioSegment operations
\* len(seg): milliseconds, rounded
LenMs(seg) == PyRound(1000 * NFrames(seg), SAMPLE_RATE)

\* seg.frame_count(ms=ms), then int()
FrameCount(ms) == PyInt(ms * SAMPLE_RATE, 1000)

\* seg._parse_position(val)
ParsePosition(seg, val) ==
    LET v == IF val < 0 THEN LenMs(seg) - (-val) ELSE val
    IN  FrameCount(v)

\* data[i:j] of Python on a sequence of frames
PySlice(s, i, j) ==
    LET n  == NFrames(s)
        ii == IF i < 0 THEN Max(i + n, 0) ELSE Min(i, n)
        jj == IF j < 0 THEN Max(j + n, 0) ELSE Min(j, n)
    IN  IF ii >= jj THEN << >> ELSE TakeFrames(DropFrames(s, ii), jj - ii)

\* seg[start:stop] with both bounds given, in milliseconds
GetItem(seg, start, stop) ==
    LET s0       == Min(start, LenMs(seg))
        e0       == Min(stop, LenMs(seg))
        s        == ParsePosition(seg, s0)
        e        == ParsePosition(seg, e0)
        data     == PySlice(seg, s, e)
        missing  == (e - s) - NFrames(data)
        silence  == IF data = << >> THEN 0 ELSE 1
    IN  IF missing = 0 THEN [err |-> FALSE, data |-> data]
        ELSE IF missing > FrameCount(TooManyMissingLimitMs)
             THEN [err |-> TRUE, data |-> << >>]
        ELSE [err |-> FALSE,
              data |-> Cat(data, Zeros(silence * missing))]

\* seg[start:]
SliceFrom(seg, start) == GetItem(seg, start, LenMs(seg))

\* seg[:stop]
SliceTo(seg, stop) == GetItem(seg, 0, stop)

\* ------------------------------------------------------------ synthesis
\* make_mute(duration), the duration being num / den seconds: numpy refuses
\* a negative dimension
make_mute(num, den) ==
    LET num_samples == SamplesOf(num, den)
    IN  IF num_samples < 0 THEN [err |-> TRUE, data |-> << >>]
        ELSE [err |-> FALSE, data |-> Zeros(num_samples)]

\* a make_beep that rounds the sample count to the nearest integer
make_beep_rounded(num, den) ==
    [err |-> FALSE, data |-> BeepRun(PyRound(num * SAMPLE_RATE, den))]

\* make_beep(duration), the duration being num / den seconds: np.arange of
\* a negative count is empty
make_beep(num, den) ==
    LET num_samples == SamplesOf(num, den)
    IN  [err |-> FALSE,
         data |-> BeepRun(num_samples)]

\* ------------------------------------------------------------ censor_audio
\* sorted(segments, key=lambda x: x[0]): stable insertion by start time
RECURSIVE InsertByStart(_, _)
InsertByStart(iv, sorted) ==
    IF sorted = << >> THEN << iv >>
    ELSE IF iv[1] < Head(sorted)[1] THEN << iv >> \o sorted
    ELSE << Head(sorted) >> \o InsertByStart(iv, Tail(sorted))

RECURSIVE SortedByStart(_)
SortedByStart(segs) ==
    IF segs = << >> THEN << >>
    ELSE InsertByStart(segs[Len(segs)], SortedByStart(SubSeq(segs, 1, Len(segs) - 1)))

\* one iteration of the for loop, on the state st of the walk
WalkStep(a, iv, m, st) ==
    LET start_ms == ToMs(iv[1])
        end_ms   == ToMs(iv[2])
        gap      == IF start_ms > st.cursor_ms
                    THEN GetItem(a, st.cursor_ms, start_ms)
                    ELSE [err |-> FALSE, data |-> << >>]
        duration == iv[2] - iv[1]
        replacement == IF m = "beep" THEN make_beep(duration, 1000 * TicksPerMs)
                       ELSE make_mute(duration, 1000 * TicksPerMs)
    IN  IF gap.err THEN [st EXCEPT !.raised = "TooManyMissingFrames"]
        ELSE IF replacement.err THEN [st EXCEPT !.raised = "ValueError"]
        ELSE [out       |-> Cat(Cat(st.out, gap.data), replacement.data),
              cursor_ms |-> end_ms,
              cursors   |-> Append(st.cursors, end_ms),
              raised    |-> "none"]

RECURSIVE Walk(_, _, _, _)
Walk(a, todo, m, st) ==
    IF todo = << >> \/ st.raised # "none" THEN st
    ELSE Walk(a, Tail(todo), m, WalkStep(a, Head(todo), m, st))

\* the rest of the original after the last interval
AppendTail(a, st) ==
    IF st.raised # "none" THEN st
    ELSE IF st.cursor_ms < LenMs(a)
    THEN LET t == SliceFrom(a, st.cursor_ms)
         IN  IF t.err THEN [st EXCEPT !.raised = "TooManyMissingFrames"]
             ELSE [st EXCEPT !.out = Cat(st.out, t.data)]
    ELSE st

\* the correction of the length against the original
FixLength(a, st) ==
    IF st.raised # "none" THEN st
    ELSE IF LenMs(st.out) > LenMs(a)
    THEN LET t == SliceTo(st.out, LenMs(a))
         IN  IF t.err THEN [st EXCEPT !.raised = "TooManyMissingFrames"]
             ELSE [st EXCEPT !.out = t.data]
    ELSE IF LenMs(st.out) < LenMs(a)
    THEN [st EXCEPT !.out = Cat(st.out, make_mute(LenMs(a) - LenMs(st.out), 1000).data)]
    ELSE st

WalkStart == [out |-> << >>, cursor_ms |-> 0, cursors |-> << 0 >>, raised |-> "none"]

censor_audio(a, segs, m) ==
    FixLength(a, AppendTail(a, Walk(a, SortedByStart(segs), m, WalkStart)))

\* a censor_audio that splices in place: the caller's buffer holds the result
InputAfterCallInPlace(a, segs, m) == censor_audio(a, segs, m).out

\* the caller's buffer after the call: no statement of censor_audio writes to it
InputAfterCall(a, segs, m) == a

\* the object returned is censored_audio, created inside the call
ReturnsInputObject(a, segs, m) == FALSE


\* ------------------------------------------------------------ strings
\* A string is the sequence of its characters.
UpperToLower ==
    [A |-> "a", B |-> "b", C |-> "c", D |-> "d", E |-> "e", N |-> "n",
     O |-> "o", R |-> "r", S |-> "s"]

LowerChar(c) == IF c \in DOMAIN UpperToLower THEN UpperToLower[c] ELSE c

\* str.lower()
Lower(w) == [i \in 1..Len(w) |-> LowerChar(w[i])]

\* sub in s
Contains(sub, s) ==
    \E i \in 0..(Len(s) - Len(sub)) : SubSeq(s, i + 1, i + Len(sub)) = sub

CharSet(s) == { s[i] : i \in 1..Len(s) }

\* length of a longest common subsequence
RECURSIVE LCS(_, _)
LCS(s, t) ==
    IF s = << >> \/ t = << >> THEN 0
    ELSE IF Head(s) = Head(t) THEN 1 + LCS(Tail(s), Tail(t))
    ELSE Max(LCS(Tail(s), t), LCS(s, Tail(t)))

\* fuzz.ratio(s1, s2) >= threshold: the normalized Indel similarity
\* 100 * 2 * LCS / (len1 + len2), compared without rounding
RatioAtLeast(s1, s2, threshold) ==
    IF Len(s1) + Len(s2) = 0 THEN 100 >= threshold
    ELSE 200 * LCS(s1, s2) >= threshold * (Len(s1) + Len(s2))

\* the substrings of the longer string that partial_ratio aligns the shorter
\* string s1 with: the short prefixes, the windows of the length of s1 and
\* the suffixes, each only when its boundary character occurs in s1
Alignments(s1, s2) ==
    LET len1 == Len(s1)
        len2 == Len(s2)
        cs   == CharSet(s1)
    IN  { SubSeq(s2, 1, i) : i \in { j \in 1..(len1 - 1) : s2[j] \in cs } }
        \cup { SubSeq(s2, i + 1, i + len1) :
                 i \in { j \in 0..(len2 - len1 - 1) : s2[j + len1] \in cs } }
        \cup { SubSeq(s2, i + 1, len2) :
                 i \in { j \in (len2 - len1)..(len2 - 1) : s2[j + 1] \in cs } }

\* the best alignment of s1 (the shorter) in s2 scores at least threshold
PartialImplAtLeast(s1, s2, threshold) ==
    \/ threshold <= 0
    \/ s1 # << >> /\ \E c \in Alignments(s1, s2) : RatioAtLeast(s1, c, threshold)

\* fuzz.partial_ratio(s1, s2) >= threshold
PartialRatioAtLeast(s1, s2, threshold) ==
    IF s1 = << >> /\ s2 = << >> THEN 100 >= threshold
    ELSE IF Len(s1) < Len(s2) THEN PartialImplAtLeast(s1, s2, threshold)
    ELSE IF Len(s1) > Len(s2) THEN PartialImplAtLeast(s2, s1, threshold)
    ELSE PartialImplAtLeast(s1, s2, threshold) \/ PartialImplAtLeast(s2, s1, threshold)

\* ------------------------------------------------------------ CurseBase
\* CurseBase.__init__: the sets are stored as given
CurseBase(cw, wl, threshold) ==
    [curse_words |-> cw, whitelist |-> wl, fuzzy_threshold |-> threshold]

\* CurseBase.is_curse
is_curse(word, base) ==
    LET w_lower == Lower(word)
    IN  IF \E white \in base.whitelist : Contains(white, w_lower) THEN FALSE
        ELSE IF \E c \in base.curse_words : Contains(c, w_lower) THEN TRUE
        ELSE \E c \in base.curse_words :
               PartialRatioAtLeast(c, w_lower, base.fuzzy_threshold)

\* ------------------------------------------------------------ censor_words
\* A Word is a record; a Segment is the sequence of its words; the flagged
\* list holds references <<segment index, word index>> to Word objects.
\* The state of a scan is the segments as mutated so far and the flagged list,
\* with a record of every window the scan classified: its segment, its first
\* word, its size and the verdict on its joined text.
Word(text, start_time, end_time, censored) ==
    [text |-> text, start_time |-> start_time, end_time |-> end_time,
     censored |-> censored]

\* w.censored = True; w.text = replacement; cursed_words.append(w)
MarkWord(st, si, wi, replacement) ==
    [st EXCEPT !.segs[si][wi].censored = TRUE,
               !.segs[si][wi].text = replacement,
               !.cursed = Append(st.cursed, << si, wi >>)]

\* for w in words: the check of each word on its own, from word wi on
RECURSIVE SingleWordPass(_, _, _, _, _)
SingleWordPass(st, si, wi, base, replacement) ==
    IF wi > Len(st.segs[si]) THEN st
    ELSE SingleWordPass(
           IF is_curse(st.segs[si][wi].text, base)
           THEN MarkWord(st, si, wi, replacement) ELSE st,
           si, wi + 1, base, replacement)

\* "".join([w.text for w in words[from:to]])
RECURSIVE JoinedText(_, _, _)
JoinedText(ws, from, to) ==
    IF from > to THEN << >> ELSE ws[from].text \o JoinedText(ws, from + 1, to)

\* for w in window_words: the marking of a window whose joined text matched
RECURSIVE MarkWindow(_, _, _, _, _, _, _)
MarkWindow(st, si, wi, last, base, replacement, strict) ==
    IF wi > last THEN st
    ELSE LET w    == st.segs[si][wi]
             mark == IF strict
                     THEN is_curse(w.text, base) /\ ~w.censored
                     ELSE ~w.censored
         IN  MarkWindow(IF mark THEN MarkWord(st, si, wi, replacement) ELSE st,
                        si, wi + 1, last, base, replacement, strict)

\* for i in range(n - size + 1), from the window starting at word i (1-based)
RECURSIVE WindowsOfSize(_, _, _, _, _, _, _)
WindowsOfSize(st, si, i, size, base, replacement, strict) ==
    IF i + size - 1 > Len(st.segs[si]) THEN st
    ELSE LET hit  == is_curse(JoinedText(st.segs[si], i, i + size - 1), base)
             seen == [st EXCEPT !.windows =
                        Append(st.windows,
                               [si |-> si, first |-> i, size |-> size, hit |-> hit])]
         IN  WindowsOfSize(
               IF hit
               THEN MarkWindow(seen, si, i, i + size - 1, base, replacement, strict)
               ELSE seen,
               si, i + 1, size, base, replacement, strict)

\* for size in range(2, window_size + 1)
RECURSIVE WindowPass(_, _, _, _, _, _, _)
WindowPass(st, si, size, window_size, base, replacement, strict) ==
    IF size > window_size THEN st
    ELSE WindowPass(WindowsOfSize(st, si, 1, size, base, replacement, strict),
                    si, size + 1, window_size, base, replacement, strict)

\* for segment in segments
RECURSIVE ScanSegments(_, _, _, _, _, _)
ScanSegments(st, si, base, replacement, window_size, strict) ==
    IF si > Len(st.segs) THEN st
    ELSE ScanSegments(
           WindowPass(SingleWordPass(st, si, 1, base, replacement),
                      si, 2, window_size, base, replacement, strict),
           si + 1, base, replacement, window_size, strict)

\* a censor_words that ignores strict_window_censor and always re-checks
\* the words of a matched window one by one
censor_words_always_strict(segs, base, replacement, window_size, strict) ==
    ScanSegments([segs |-> segs, cursed |-> << >>, windows |-> << >>], 1,
                 base, replacement, window_size, TRUE)

\* the words of all segments, in order
RECURSIVE Flatten(_)
Flatten(segs) == IF segs = << >> THEN << >> ELSE Head(segs) \o Flatten(Tail(segs))

\* the number of words before segment si
WordsBefore(segs, si) == Len(Flatten(SubSeq(segs, 1, si - 1)))

\* the segment and index of the p-th word of the transcript
RefOfPosition(segs, p) ==
    CHOOSE r \in (1..Len(segs)) \X (1..Len(Flatten(segs))) :
        /\ r[2] <= Len(segs[r[1]])
        /\ WordsBefore(segs, r[1]) + r[2] = p

\* a censor_words that scans the words of the whole transcript as one run,
\* without regard to the segments they belong to
censor_words_across(segs, base, replacement, window_size, strict) ==
    LET st == ScanSegments([segs |-> << Flatten(segs) >>, cursed |-> << >>,
                            windows |-> << >>], 1,
                           base, replacement, window_size, strict)
    IN  [segs    |-> [si \in 1..Len(segs) |->
                        [wi \in 1..Len(segs[si]) |->
                           st.segs[1][WordsBefore(segs, si) + wi]]],
         cursed  |-> [k \in 1..Len(st.cursed) |->
                        RefOfPosition(segs, st.cursed[k][2])],
         windows |-> [k \in 1..Len(st.windows) |->
                        LET r == RefOfPosition(segs, st.windows[k].first)
                        IN  [st.windows[k] EXCEPT !.si = r[1], !.first = r[2]]]]

\* a censor_words whose window pass marks whole windows, whatever
\* strict_window_censor says
censor_words_never_strict(segs, base, replacement, window_size, strict) ==
    ScanSegments([segs |-> segs, cursed |-> << >>, windows |-> << >>], 1,
                 base, replacement, window_size, FALSE)

censor_words(segs, base, replacement, window_size, strict) ==
    ScanSegments([segs |-> segs, cursed |-> << >>, windows |-> << >>], 1,
                 base, replacement, window_size, strict)

\* a generate_ffmpeg_times that hands the intervals over in time order
generate_ffmpeg_times_sorted(cursed, segs) ==
    SortedByStart([i \in 1..Len(cursed) |->
                     << segs[cursed[i][1]][cursed[i][2]].start_time,
                        segs[cursed[i][1]][cursed[i][2]].end_time >>])

\* generate_ffmpeg_times: the times of the flagged words, read at the call
generate_ffmpeg_times(cursed, segs) ==
    [i \in 1..Len(cursed) |->
       << segs[cursed[i][1]][cursed[i][2]].start_time,
          segs[cursed[i][1]][cursed[i][2]].end_time >>]

\* ------------------------------------------------------------ transcript files
\* A value json.load returns is described as far as load_transcript and
\* validate_transcript_structure look at it: its type t, the keys it has (for
\* a str or a list: the key names that `k in w` finds in it) and the types ty
\* of the values under the keys of a word.
JsonTypes == {"dict", "list", "str", "float", "bool", "null"}
RootKeys == {"segments", "duration"}
SegmentKeys == {"words", "start_time", "end_time"}
WordKeys == {"text", "start_time", "end_time", "censored"}

\* the types the docstring of validate_transcript_structure gives
WordFieldTypes ==
    [text |-> "str", start_time |-> "float", end_time |-> "float", censored |-> "bool"]

JsonWord(t, has, ty, text, censored) ==
    [t |-> t, has |-> has, ty |-> ty, text |-> text,
     start_time |-> 0, end_time |-> 1, censored |-> censored]

JsonSegment(t, has, words_t, words) ==
    [t |-> t, has |-> has, words_t |-> words_t, words |-> words]

JsonRoot(t, has, segments_t, segs, duration_t) ==
    [t |-> t, has |-> has, segments_t |-> segments_t, segments |-> segs,
     duration_t |-> duration_t]

\* str.strip() of a text whose only whitespace is " "
RECURSIVE LStrip(_)
LStrip(txt) ==
    IF txt # << >> /\ Head(txt) = " " THEN LStrip(Tail(txt)) ELSE txt

RECURSIVE RStrip(_)
RStrip(txt) ==
    IF txt # << >> /\ txt[Len(txt)] = " "
    THEN RStrip(SubSeq(txt, 1, Len(txt) - 1)) ELSE txt

Strip(txt) == RStrip(LStrip(txt))

\* all(k in w for k in ("text", "start_time", "end_time", "censored")):
\* `in` raises TypeError on a value that is no container
CheckWord(w) ==
    IF w.t \notin {"dict", "list", "str"} THEN "TypeError"
    ELSE IF ~(WordKeys \subseteq w.has) THEN "KeyError"
    ELSE "ok"

\* for j, w in enumerate(seg['words'])
RECURSIVE CheckWords(_)
CheckWords(ws) ==
    IF ws = << >> THEN "ok"
    ELSE IF CheckWord(Head(ws)) # "ok" THEN CheckWord(Head(ws))
    ELSE CheckWords(Tail(ws))

CheckSegment(seg) ==
    IF seg.t # "dict" THEN "TypeError"
    ELSE IF ~(SegmentKeys \subseteq seg.has) THEN "KeyError"
    ELSE IF seg.words_t # "list" THEN "TypeError"
    ELSE CheckWords(seg.words)

\* for i, seg in enumerate(data['segments'])
RECURSIVE CheckSegments(_)
CheckSegments(segs) ==
    IF segs = << >> THEN "ok"
    ELSE IF CheckSegment(Head(segs)) # "ok" THEN CheckSegment(Head(segs))
    ELSE CheckSegments(Tail(segs))

\* validate_transcript_structure: "True", or the exception it raises
validate_transcript_structure(data) ==
    IF data.t # "dict" THEN "TypeError"
    ELSE IF ~(RootKeys \subseteq data.has) THEN "KeyError"
    ELSE IF data.segments_t # "list" THEN "TypeError"
    ELSE IF CheckSegments(data.segments) # "ok" THEN CheckSegments(data.segments)
    ELSE "True"

\* the state of the building loops of load_transcript: the Segment objects
\* built, the words of the segment under construction, the number of Word
\* objects constructed, whether one of them holds a value of a type other
\* than the documented one, and the exception raised
BuildStart ==
    [segments |-> << >>, words |-> << >>, built |-> 0, ill_typed |-> FALSE,
     raised |-> "none"]

\* Word(w['text'].strip(), w['start_time'], w['end_time'], w['censored'])
BuildWord(w, st) ==
    IF w.t # "dict" THEN [st EXCEPT !.raised = "TypeError"]
    ELSE IF w.ty.text # "str" THEN [st EXCEPT !.raised = "AttributeError"]
    ELSE [st EXCEPT
            !.words = Append(st.words,
                             Word(Strip(w.text), w.start_time, w.end_time, w.censored)),
            !.built = st.built + 1,
            !.ill_typed = st.ill_typed \/ w.ty # WordFieldTypes]

RECURSIVE BuildWords(_, _)
BuildWords(ws, st) ==
    IF ws = << >> \/ st.raised # "none" THEN st
    ELSE BuildWords(Tail(ws), BuildWord(Head(ws), st))

\* segments.append(Segment(words=words))
BuildSegment(seg, st) ==
    LET ws == BuildWords(seg.words, [st EXCEPT !.words = << >>])
    IN  IF ws.raised # "none" THEN ws
        ELSE [ws EXCEPT !.segments = Append(st.segments, ws.words), !.words = << >>]

RECURSIVE BuildSegments(_, _)
BuildSegments(segs, st) ==
    IF segs = << >> \/ st.raised # "none" THEN st
    ELSE BuildSegments(Tail(segs), BuildSegment(Head(segs), st))

\* load_transcript: what it returned ("None", "Transcript" or "raised"), the
\* exception, whether validation returned True, and what was built
load_transcript(exists, data) ==
    IF ~exists
    THEN [returned |-> "None", raised |-> "none", validated |-> FALSE,
          built |-> 0, ill_typed |-> FALSE, segments |-> << >>]
    ELSE IF validate_transcript_structure(data) # "True"
    THEN [returned |-> "raised", raised |-> validate_transcript_structure(data),
          validated |-> FALSE, built |-> 0, ill_typed |-> FALSE, segments |-> << >>]
    ELSE LET st == BuildSegments(data.segments, BuildStart)
         IN  IF st.raised # "none"
             THEN [returned |-> "raised", raised |-> st.raised, validated |-> TRUE,
                   built |-> st.built, ill_typed |-> st.ill_typed, segments |-> << >>]
             ELSE [returned |-> "Transcript", raised |-> "none", validated |-> TRUE,
                   built |-> st.built,
                   ill_typed |-> st.ill_typed \/ data.duration_t # "float",
                   segments |-> st.segments]

\* before any make_mute or make_beep call of the synthesis runs
NotSynthesized ==
    [mute_units |-> 0, mute |-> [err |-> FALSE, data |-> << >>],
     beep_units |-> 0, beep |-> [err |-> FALSE, data |-> << >>]]

\* before any load
NoJson == JsonRoot("null", {}, "null", << >>, "null")

\* a file that does not exist
NoFile == [exists |-> FALSE, data |-> NoJson]

\* no flags dictionary (None)
NoFlags == [keys |-> "none", map |-> << >>]

\* before the first run of the main script
NoRun == [count |-> 0, intervals |-> << >>, censored_audio |-> << >>]
NotLoaded ==
    [returned |-> "nothing", raised |-> "none", validated |-> FALSE,
     built |-> 0, ill_typed |-> FALSE, segments |-> << >>]

\* ------------------------------------------------------------ stored transcripts
\* Segment.start_time and Segment.end_time, set from the words at construction
SegmentStart(words) == IF words = << >> THEN 0 ELSE words[1].start_time
SegmentEnd(words) == IF words = << >> THEN 0 ELSE words[Len(words)].end_time

\* the dictionary save_transcript makes of a word: the text is stripped
StoredWord(w) ==
    [JsonWord("dict", WordKeys, WordFieldTypes, Strip(w.text), w.censored)
        EXCEPT !.start_time = w.start_time, !.end_time = w.end_time]

StoredSegment(words) ==
    [t |-> "dict", has |-> SegmentKeys, words_t |-> "list",
     words |-> [j \in 1..Len(words) |-> StoredWord(words[j])],
     start_time |-> SegmentStart(words), end_time |-> SegmentEnd(words)]

\* save_transcript: the file transcript_original_json after the call
save_transcript(segs, dur) ==
    [exists |-> TRUE,
     data |-> [t |-> "dict", has |-> RootKeys, segments_t |-> "list",
               segments |-> [i \in 1..Len(segs) |-> StoredSegment(segs[i])],
               duration_t |-> "float", duration |-> dur]]

\* ------------------------------------------------------------ censored flags
\* A flags dictionary maps segment indices to dictionaries from word indices
\* to booleans.  It is a function of functions, with the type of its keys:
\* "int" in memory, "str" once it went through json.dump (int(k) reads both).
\* Its items are visited in ascending order of the keys.

\* json.dump(current_flags): a JSON object whose keys are numerals, none of
\* them a key of the transcript schema
save_censored_flags(flags) ==
    [exists |-> TRUE,
     data |-> [t |-> "dict", has |-> {}, keys |-> "str", map |-> flags.map]]

\* {j: w.get("censored", False) for j, w in enumerate(words)}
FlagsOfWords(words) ==
    [j \in 0..(Len(words) - 1) |->
       IF "censored" \in words[j + 1].has THEN words[j + 1].censored ELSE FALSE]

\* {i: {...} for i, seg in enumerate(data.get("segments", []))}
FlagsOfData(data) ==
    LET segs == IF "segments" \in data.has THEN data.segments ELSE << >>
    IN  [keys |-> "int",
         map  |-> [i \in 0..(Len(segs) - 1) |->
                     FlagsOfWords(IF "words" \in segs[i + 1].has
                                  THEN segs[i + 1].words ELSE << >>)]]

\* load_original_file(fm), on the file transcript_original_json
load_original_file(file) ==
    IF ~file.exists
    THEN [raised |-> "FileNotFoundError", flags |-> [keys |-> "none", map |-> << >>]]
    ELSE [raised |-> "none", flags |-> FlagsOfData(file.data)]

\* load_editable_file(fm), on the file transcript_edit_json
load_editable_file(file) ==
    IF ~file.exists
    THEN [raised |-> "FileNotFoundError", flags |-> [keys |-> "none", map |-> << >>]]
    ELSE [raised |-> "none", flags |-> FlagsOfData(file.data)]

\* the position (1-based) list[i] reads in a list of n items, 0 for IndexError
PyIndex(n, i) ==
    IF i >= 0 /\ i < n THEN i + 1
    ELSE IF i < 0 /\ i >= -n THEN n + i + 1
    ELSE 0

MinOf(S) == CHOOSE x \in S : \A y \in S : x <= y

\* for word_idx, censored in words_dict.items(), the keys todo still to come
RECURSIVE ApplyWordFlags(_, _, _)
ApplyWordFlags(st, words_dict, todo) ==
    IF todo = {} \/ st.raised # "none" THEN st
    ELSE LET k == MinOf(todo)
             n == Len(st.words)
         IN  ApplyWordFlags(
               IF k >= n THEN st
               ELSE IF PyIndex(n, k) = 0 THEN [st EXCEPT !.raised = "IndexError"]
               ELSE [st EXCEPT !.words[PyIndex(n, k)] =
                       [@ EXCEPT !.censored = words_dict[k],
                                 !.ty = [@ EXCEPT !.censored = "bool"],
                                 !.has = @ \cup {"censored"}]],
               words_dict, todo \ {k})

\* for seg_idx, words_dict in current_flags.items(), the keys todo still to come
RECURSIVE ApplySegmentFlags(_, _, _)
ApplySegmentFlags(st, map, todo) ==
    IF todo = {} \/ st.raised # "none" THEN st
    ELSE LET k == MinOf(todo)
             n == Len(st.segments)
             p == PyIndex(n, k)
         IN  ApplySegmentFlags(
               IF k >= n THEN st
               ELSE IF p = 0 THEN [st EXCEPT !.raised = "IndexError"]
               ELSE LET ws == ApplyWordFlags(
                                [words |-> st.segments[p].words, raised |-> "none"],
                                map[k], DOMAIN map[k])
                    IN  [segments |-> [st.segments EXCEPT ![p].words = ws.words],
                         raised   |-> ws.raised],
               map, todo \ {k})

\* apply_censored_flags(fm, current_flags): the exception raised and the
\* file transcript_original_json after the call; the file is written after
\* the loops, so not at all when one of them raised
apply_censored_flags(original, edit, flags) ==
    IF ~original.exists
    THEN [raised |-> "FileNotFoundError", file |-> original]
    ELSE IF flags.keys = "none" /\ ~edit.exists
    THEN [raised |-> "FileNotFoundError", file |-> original]
    ELSE LET map == IF flags.keys = "none" THEN edit.data.map ELSE flags.map
             st  == ApplySegmentFlags(
                      [segments |-> original.data.segments, raised |-> "none"],
                      map, DOMAIN map)
         IN  IF st.raised # "none"
             THEN [raised |-> st.raised, file |-> original]
             ELSE [raised |-> "none",
                   file   |-> [exists |-> TRUE,
                               data |-> [original.data EXCEPT !.segments = st.segments]]]

\* {seg_idx: {word_idx: False for word_idx in words_dict}}
ResetFlags(flags) ==
    [keys |-> flags.keys,
     map  |-> [k \in DOMAIN flags.map |-> [j \in DOMAIN flags.map[k] |-> FALSE]]]

\* a reset_censorship that sets the flags of its argument and returns it
reset_censorship_in_place(flags) ==
    [result |-> ResetFlags(flags), arg |-> ResetFlags(flags)]

\* reset_censorship(current_flags): the dictionary returned and the argument
\* after the call; reset_flags is built from new dictionaries
reset_censorship(flags) ==
    [result |-> ResetFlags(flags), arg |-> flags]

\* ------------------------------------------------------------ subtitles
\* _fmt_ts(t): hours, minutes, seconds and milliseconds of t (ticks), in
\* exact arithmetic
fmt_ts(t) ==
    LET whole == PyInt(t, 1000 * TicksPerMs)
    IN  [h  |-> whole \div 3600,
         m  |-> (whole \div 60) % 60,
         s  |-> whole % 60,
         ms |-> PyInt((t - whole * 1000 * TicksPerMs) * 1000, 1000 * TicksPerMs)]

\* the default "**{word}**" of save_srt; the placeholder is one element
DefaultCensorFmt == << "*", "*", "{word}", "*", "*" >>

\* censor_fmt.replace("{word}", text)
RECURSIVE ReplaceWord(_, _)
ReplaceWord(fmt, text) ==
    IF fmt = << >> THEN << >>
    ELSE (IF Head(fmt) = "{word}" THEN text ELSE << Head(fmt) >>)
           \o ReplaceWord(Tail(fmt), text)

encode_word(w, censor_fmt) ==
    IF ~w.censored THEN w.text
    ELSE IF \E i \in 1..Len(censor_fmt) : censor_fmt[i] = "{word}"
    THEN ReplaceWord(censor_fmt, w.text)
    ELSE censor_fmt

\* " ".join(texts)
RECURSIVE JoinWords(_)
JoinWords(texts) ==
    IF texts = << >> THEN << >>
    ELSE IF Len(texts) = 1 THEN texts[1]
    ELSE texts[1] \o << " " >> \o JoinWords(Tail(texts))

\* the entry of segment idx: its number, its two time codes, the renderings
\* of its words and the line they are joined to
SrtEntry(idx, words, censor_fmt) ==
    LET rendered == [j \in 1..Len(words) |-> encode_word(words[j], censor_fmt)]
    IN  [idx   |-> idx,
         start |-> fmt_ts(words[1].start_time),
         end   |-> fmt_ts(words[Len(words)].end_time),
         words |-> rendered,
         text  |-> JoinWords(rendered)]

\* for idx, seg in enumerate(segments, start=1): segments without words
\* are skipped
RECURSIVE SrtEntries(_, _, _)
SrtEntries(segs, idx, censor_fmt) ==
    IF idx > Len(segs) THEN << >>
    ELSE (IF segs[idx] = << >> THEN << >>
          ELSE << SrtEntry(idx, segs[idx], censor_fmt) >>)
           \o SrtEntries(segs, idx + 1, censor_fmt)

\* save_srt(segments, path, censor_fmt): the entries written to the file
save_srt(segs, censor_fmt) == SrtEntries(segs, 1, censor_fmt)

\* ------------------------------------------------------------ state
VARIABLES
    pc,              \* position of the caller
    audio,           \* the original buffer (input_wav)
    segments,        \* the interval list passed to censor_audio
    mode,            \* the replacement mode passed to censor_audio
    censored_audio,  \* the buffer returned by censor_audio
    raised,          \* the exception censor_audio ended with, or "none"
    cursors,         \* the values cursor_ms took, in order
    aliased,         \* the returned buffer is the input object
    curse_base,      \* the CurseBase
    word,            \* the argument of the last is_curse call
    verdict,         \* the result of the last is_curse call
    transcript,      \* the segments of the Transcript
    scan_args,       \* replacement, window_size, strict_window_censor
    cursed_words,    \* the flagged list returned by censor_words
    intervals,       \* the result of generate_ffmpeg_times
    scanned_from,    \* the segments as they were passed to the last censor_words
    windows,         \* the windows the last censor_words classified, in order
    json_data,       \* the value json.load returned to load_transcript
    loaded,          \* how load_transcript ended and what it built
    synthesized,     \* the last make_mute / make_beep call and its buffer
    duration,        \* Transcript.duration of the transcript in memory
    original_file,   \* the file fm.transcript_original_json
    edit_file,       \* the file fm.transcript_edit_json
    subtitles,       \* the file fm.subtitles_srt
    current_flags,   \* the flags dictionary passed to the last call, after the call
    returned_flags,  \* the flags dictionary the last call returned
    file_error,      \* the exception the last file operation raised, or "none"
    previous_run     \* the runs of the main script that saved, and what the last computed

audioVars == << audio, segments, mode, censored_audio, raised, cursors, aliased >>
scanVars == << scanned_from, windows >>
loadVars == << json_data, loaded >>
synthVars == << synthesized >>
fileVars == << original_file, edit_file, subtitles, current_flags, returned_flags,
              file_error, previous_run >>
wordVars == << curse_base, word, verdict, transcript, scan_args, cursed_words, intervals,
              scanned_from, windows, json_data, loaded, synthesized, duration,
              original_file, edit_file, subtitles, current_flags, returned_flags,
              file_error, previous_run >>
vars == << pc, audio, segments, mode, censored_audio, raised, cursors, aliased,
           curse_base, word, verdict, transcript, scan_args, cursed_words, intervals,
           scanned_from, windows, json_data, loaded, synthesized, duration,
           original_file, edit_file, subtitles, current_flags, returned_flags,
           file_error, previous_run >>

Ticks == (-MaxEarlyTicks)..MaxTick
Intervals == Ticks \X Ticks
IntervalLists == UNION { [1..n -> Intervals] : n \in 0..MaxIntervals }
Modes == {"beep", "mute"}

\* make_mute(track_length) of the drift test, with frames told apart by position
Original(lenTicks) == OrigRun(1, NumSamples(lenTicks))

Init ==
    /\ pc = "idle"
    /\ audio = << >>
    /\ segments = << >>
    /\ mode = "mute"
    /\ censored_audio = << >>
    /\ raised = "none"
    /\ cursors = << >>
    /\ aliased = FALSE
    /\ curse_base = CurseBase({}, {}, FuzzyThresholdDefault)
    /\ word = << >>
    /\ verdict = FALSE
    /\ transcript = << >>
    /\ scan_args = [replacement |-> << >>, window_size |-> 1, strict |-> TRUE]
    /\ cursed_words = << >>
    /\ intervals = << >>
    /\ scanned_from = << >>
    /\ windows = << >>
    /\ json_data = NoJson
    /\ loaded = NotLoaded
    /\ synthesized = NotSynthesized
    /\ duration = 0
    /\ original_file = NoFile
    /\ edit_file = NoFile
    /\ subtitles = << >>
    /\ current_flags = NoFlags
    /\ returned_flags = NoFlags
    /\ file_error = "none"
    /\ previous_run = NoRun

\* the caller obtains the original buffer
LoadAudio(lenTicks) ==
    /\ pc = "idle"
    /\ pc' = "loaded"
    /\ audio' = Original(lenTicks)
    /\ UNCHANGED << segments, mode, censored_audio, raised, cursors, aliased >>
    /\ UNCHANGED wordVars

\* censor_audio(audio, segs, m), from call to return or raise
CallCensorAudio(segs, m) ==
    /\ LET st == censor_audio(audio, segs, m)
       IN  /\ censored_audio' = IF st.raised = "none" THEN st.out ELSE << >>
           /\ raised' = st.raised
           /\ cursors' = st.cursors
    /\ segments' = segs
    /\ mode' = m
    /\ audio' = InputAfterCall(audio, segs, m)
    /\ aliased' = ReturnsInputObject(audio, segs, m)
    /\ pc' = "done"
    /\ UNCHANGED wordVars

CensorAudio(segs, m) ==
    /\ pc = "loaded"
    /\ CallCensorAudio(segs, m)

Next ==
    \/ pc = "idle" /\ \E n \in 0..MaxLenTicks : LoadAudio(n)
    \/ pc = "loaded" /\ \E segs \in IntervalLists, m \in Modes : CensorAudio(segs, m)

Spec == Init /\ [][Next]_vars

\* ------------------------------------------------------------ drift runs
\* censor_audio on longer buffers with lists of sorted, disjoint, proper
\* intervals, as the drift test builds them
RECURSIVE AscendingSeq(_)
AscendingSeq(S) ==
    IF S = {} THEN << >>
    ELSE LET lo == CHOOSE x \in S : \A y \in S : x <= y
         IN  << lo >> \o AscendingSeq(S \ {lo})

\* <<t1, t2, t3, t4, ...>> to <<(t1, t2), (t3, t4), ...>>
PairUp(ts) == [i \in 1..(Len(ts) \div 2) |-> << ts[2 * i - 1], ts[2 * i] >>]

\* the lists of at most maxCount disjoint proper intervals, in order, with
\* bounds in 0..maxTick
DisjointListsIn(maxTick, maxCount) ==
    { PairUp(AscendingSeq(S)) :
        S \in { T \in SUBSET (0..maxTick) :
                   Cardinality(T) % 2 = 0 /\ Cardinality(T) <= 2 * maxCount } }

DisjointLists == DisjointListsIn(MaxDriftLenTicks, MaxDriftIntervals)

NextDrift ==
    \/ pc = "idle" /\ \E n \in 0..MaxDriftLenTicks : LoadAudio(n)
    \/ pc = "loaded" /\ \E segs \in DisjointLists, m \in Modes : CensorAudio(segs, m)

SpecDrift == Init /\ [][NextDrift]_vars

\* ------------------------------------------------------------ classification
Chars == {"a", "b", "A"}
LowerChars == {"a", "b"}

\* the strings over cs of a length in lo..hi
StringsOver(cs, lo, hi) == UNION { [1..n -> cs] : n \in lo..hi }

\* the word sets of at most one of the given strings
WordSets(strs) == { {} } \cup { { x } : x \in strs }

Thresholds == {50, FuzzyThresholdDefault}

\* curse_base = CurseBase(curse_words, whitelist, fuzzy_threshold)
NewCurseBase(cw, wl, threshold) ==
    /\ pc = "idle"
    /\ pc' = "base"
    /\ curse_base' = CurseBase(cw, wl, threshold)
    /\ UNCHANGED << word, verdict, transcript, scan_args, cursed_words, intervals >>
    /\ UNCHANGED scanVars
    /\ UNCHANGED << duration, fileVars >>
    /\ UNCHANGED << json_data, loaded, synthesized >>
    /\ UNCHANGED audioVars

\* curse_base.is_curse(w)
IsCurse(w) ==
    /\ pc = "base"
    /\ pc' = "checked"
    /\ word' = w
    /\ verdict' = is_curse(w, curse_base)
    /\ UNCHANGED << curse_base, transcript, scan_args, cursed_words, intervals >>
    /\ UNCHANGED scanVars
    /\ UNCHANGED << duration, fileVars >>
    /\ UNCHANGED << json_data, loaded, synthesized >>
    /\ UNCHANGED audioVars

NextClassify ==
    \/ pc = "idle" /\ \E cw \in WordSets(StringsOver(Chars, 1, MaxCurseLen)),
                         wl \in WordSets(StringsOver(Chars, 1, MaxCurseLen)),
                         th \in Thresholds : NewCurseBase(cw, wl, th)
    \/ pc = "base" /\ \E w \in StringsOver(Chars, 0, MaxWordLen) : IsCurse(w)

SpecClassify == Init /\ [][NextClassify]_vars

\* ------------------------------------------------------------ pipeline
\* the main script: transcribe, censor_words, generate_ffmpeg_times,
\* censor_audio
PipelineTexts == StringsOver(Chars, 1, 1)
\* CurseBase(curse_words, whitelist) of the main script, run without a
\* whitelist: the fuzzy threshold is the default
PipelineBases ==
    { CurseBase(cw, {}, FuzzyThresholdDefault) :
        cw \in WordSets(StringsOver(LowerChars, 1, MaxCurseLen)) }

\* the default "[CENSORED]" of censor_words
DefaultReplacement == << "[", "C", "E", "N", "S", "O", "R", "E", "D", "]" >>
Replacements == { DefaultReplacement, << "a" >> }

\* words in time order, one after the other, none flagged yet
WordLists ==
    UNION { { [i \in 1..Len(iv) |-> Word(txt[i], iv[i][1], iv[i][2], FALSE)] :
                txt \in [1..Len(iv) -> PipelineTexts] } :
            iv \in DisjointListsIn(MaxLenTicks, MaxTranscriptWords) }

\* the words as two segments, cut after word cut
Transcripts ==
    UNION { { << SubSeq(ws, 1, cut), SubSeq(ws, cut + 1, Len(ws)) >> :
                cut \in 0..Len(ws) } : ws \in WordLists }

\* transcript = transcribe_audio(extracted_wav): the words lie inside the audio
Transcribe(segs, lenTicks) ==
    /\ pc = "base"
    /\ \A si \in 1..Len(segs) : \A wi \in 1..Len(segs[si]) :
         segs[si][wi].end_time <= lenTicks
    /\ pc' = "transcribed"
    /\ transcript' = segs
    /\ audio' = Original(lenTicks)
    /\ duration' = lenTicks
    /\ UNCHANGED << curse_base, word, verdict, scan_args, cursed_words, intervals >>
    /\ UNCHANGED scanVars
    /\ UNCHANGED fileVars
    /\ UNCHANGED << json_data, loaded, synthesized >>
    /\ UNCHANGED << segments, mode, censored_audio, raised, cursors, aliased >>

\* segments, cursed_words = censor_words(transcript.segments, curse_base, ...)
CallCensorWords(replacement, window_size, strict) ==
    /\ LET st == censor_words(transcript, curse_base, replacement, window_size, strict)
       IN  /\ transcript' = st.segs
           /\ cursed_words' = st.cursed
           /\ windows' = st.windows
    /\ scanned_from' = transcript
    /\ UNCHANGED << json_data, loaded, synthesized >>
    /\ UNCHANGED << duration, fileVars >>
    /\ scan_args' = [replacement |-> replacement, window_size |-> window_size,
                     strict |-> strict]
    /\ UNCHANGED << curse_base, word, verdict, intervals >>
    /\ UNCHANGED audioVars

CensorWords(replacement, window_size, strict) ==
    /\ pc = "transcribed"
    /\ pc' = "scanned"
    /\ CallCensorWords(replacement, window_size, strict)

\* intervals = generate_ffmpeg_times(cursed_words)
GenerateTimes ==
    /\ pc = "scanned"
    /\ pc' = "times"
    /\ intervals' = generate_ffmpeg_times(cursed_words, transcript)
    /\ UNCHANGED << curse_base, word, verdict, transcript, scan_args, cursed_words >>
    /\ UNCHANGED scanVars
    /\ UNCHANGED << duration, fileVars >>
    /\ UNCHANGED << json_data, loaded, synthesized >>
    /\ UNCHANGED audioVars

\* censored_audio = censor_audio(extracted_wav, intervals, mode)
CensorFlagged(m) ==
    /\ pc = "times"
    /\ CallCensorAudio(intervals, m)

NextPipeline ==
    \/ pc = "idle" /\ \E b \in PipelineBases :
                        NewCurseBase(b.curse_words, b.whitelist, b.fuzzy_threshold)
    \/ pc = "base" /\ \E segs \in Transcripts, n \in 0..MaxLenTicks : Transcribe(segs, n)
    \/ pc = "transcribed" /\ \E r \in Replacements, ws \in 1..MaxWindow, st \in BOOLEAN :
                               CensorWords(r, ws, st)
    \/ GenerateTimes
    \/ pc = "times" /\ \E m \in Modes : CensorFlagged(m)

SpecPipeline == Init /\ [][NextPipeline]_vars

\* ------------------------------------------------------------ scans
\* censor_words on transcripts of a few short words, and again on its own
\* result, as a second run of the main script does with the transcript the
\* first run saved
ScanChars == {"a", "e"}
ScanTexts == { << "a" >>, << "e" >>, << "e", "a" >>, << "a", "e" >> }

\* the window-merge scenario: base {"blyad"}, tokens "bl", "yad'", one
\* character per element
ExampleBase == CurseBase({ << "b", "l", "ya", "d" >> }, {}, FuzzyThresholdDefault)
ExampleSegments ==
    << << Word(<< "b", "l" >>, 0, 1, FALSE),
          Word(<< "ya", "d", "soft" >>, 1, 2, FALSE) >> >>

ScanBases ==
    { CurseBase(cw, wl, FuzzyThresholdDefault) :
        cw \in WordSets(StringsOver(ScanChars, 1, MaxCurseLen)),
        wl \in WordSets(StringsOver(ScanChars, 1, 1)) }
      \cup { ExampleBase }

\* word i is spoken from tick i - 1 to tick i; no word is flagged yet
ScanWordLists ==
    UNION { { [i \in 1..n |-> Word(txt[i], i - 1, i, FALSE)] :
                txt \in [1..n -> ScanTexts] } : n \in 0..MaxTranscriptWords }

ScanTranscripts ==
    UNION { { << SubSeq(ws, 1, cut), SubSeq(ws, cut + 1, Len(ws)) >> :
                cut \in 0..Len(ws) } : ws \in ScanWordLists }
      \cup { ExampleSegments }

\* transcript.segments as the caller holds them before the scan
TakeSegments(segs) ==
    /\ pc = "base"
    /\ pc' = "transcribed"
    /\ transcript' = segs
    /\ UNCHANGED << curse_base, word, verdict, scan_args, cursed_words, intervals >>
    /\ UNCHANGED scanVars
    /\ UNCHANGED << duration, fileVars >>
    /\ UNCHANGED << json_data, loaded, synthesized >>
    /\ UNCHANGED audioVars

\* censor_words once more, on the segments the first call returned and with
\* the arguments of the first call
Rescan ==
    /\ pc = "scanned"
    /\ pc' = "rescanned"
    /\ CallCensorWords(scan_args.replacement, scan_args.window_size, scan_args.strict)

NextScan ==
    \/ pc = "idle" /\ \E b \in ScanBases :
                        NewCurseBase(b.curse_words, b.whitelist, b.fuzzy_threshold)
    \/ pc = "base" /\ \E segs \in ScanTranscripts : TakeSegments(segs)
    \/ pc = "transcribed" /\ \E r \in Replacements, ws \in 1..MaxWindow, st \in BOOLEAN :
                               CensorWords(r, ws, st)
    \/ Rescan

SpecScan == Init /\ [][NextScan]_vars

\* ------------------------------------------------------------ configurations
\* the main script with configuration values inside and outside the ranges
\* the documentation gives: fuzzy_threshold 0-100, window_size from 1 on,
\* mode "beep" or "mute"
ConfigThresholds == { -1, FuzzyThresholdDefault, 101 }
ConfigWindows == 0..MaxWindow
ConfigModes == Modes \cup { "blur" }

NextConfig ==
    \/ pc = "idle" /\ \E cw \in WordSets(StringsOver(LowerChars, 1, 1)),
                         th \in ConfigThresholds : NewCurseBase(cw, {}, th)
    \/ pc = "base" /\ \E segs \in Transcripts, n \in 0..MaxLenTicks : Transcribe(segs, n)
    \/ pc = "transcribed" /\ \E ws \in ConfigWindows, st \in BOOLEAN :
                               CensorWords(DefaultReplacement, ws, st)
    \/ GenerateTimes
    \/ pc = "times" /\ \E m \in ConfigModes : CensorFlagged(m)

SpecConfig == Init /\ [][NextConfig]_vars

\* ------------------------------------------------------------ loading
\* load_transcript on the values a transcript file can hold: words and
\* segments of the documented shape, and ones with a key missing, a value
\* of another type, or another type altogether
JsonTexts == { << "a" >>, << " ", "a", " " >> }

GoodJsonWords ==
    { JsonWord("dict", WordKeys, WordFieldTypes, txt, c) :
        txt \in JsonTexts, c \in BOOLEAN }

BadJsonWords ==
    { JsonWord("dict", WordKeys \ {k}, WordFieldTypes, << "a" >>, FALSE) : k \in WordKeys }
      \cup { JsonWord("dict", WordKeys, [WordFieldTypes EXCEPT ![k] = "null"],
                      << "a" >>, FALSE) : k \in WordKeys }
      \cup { JsonWord("str", has, WordFieldTypes, << "a" >>, FALSE) : has \in {WordKeys, {}} }
      \cup { JsonWord("float", {}, WordFieldTypes, << "a" >>, FALSE) }

\* the lists of at most maxWords words
JsonWordLists(maxWords) == StringsOver(GoodJsonWords \cup BadJsonWords, 0, maxWords)

GoodJsonSegment(ws) == JsonSegment("dict", SegmentKeys, "list", ws)

BadJsonSegments ==
    { JsonSegment("dict", SegmentKeys \ {k}, "list", << >>) : k \in SegmentKeys }
      \cup { JsonSegment("dict", SegmentKeys, "dict", << >>),
             JsonSegment("list", {}, "null", << >>) }

\* the words cut into two segments, or one segment next to a malformed one
JsonSegmentLists(maxWords) ==
    UNION { { << GoodJsonSegment(SubSeq(ws, 1, cut)),
                 GoodJsonSegment(SubSeq(ws, cut + 1, Len(ws))) >> :
                cut \in 0..Len(ws) } : ws \in JsonWordLists(maxWords) }
      \cup { << GoodJsonSegment(ws), b >> :
                ws \in JsonWordLists(maxWords), b \in BadJsonSegments }
      \cup { << b, GoodJsonSegment(ws) >> :
                ws \in JsonWordLists(maxWords), b \in BadJsonSegments }

JsonDocuments(maxWords) ==
    { JsonRoot("dict", RootKeys, "list", segs, dt) :
        segs \in JsonSegmentLists(maxWords), dt \in {"float", "str"} }
      \cup { JsonRoot("dict", RootKeys \ {k}, "list", << >>, "float") : k \in RootKeys }
      \cup { JsonRoot("dict", RootKeys, "dict", << >>, "float"),
             JsonRoot("list", {}, "null", << >>, "null") }

\* transcript = load_transcript(fm), the file holding data when it exists
LoadTranscript(exists, data) ==
    /\ pc = "idle"
    /\ pc' = "read"
    /\ json_data' = data
    /\ loaded' = load_transcript(exists, data)
    /\ transcript' = load_transcript(exists, data).segments
    /\ UNCHANGED << curse_base, word, verdict, scan_args, cursed_words, intervals >>
    /\ UNCHANGED scanVars
    /\ UNCHANGED << duration, fileVars >>
    /\ UNCHANGED synthVars
    /\ UNCHANGED audioVars

NextLoad ==
    \/ pc = "idle" /\ \E data \in JsonDocuments(MaxTranscriptWords) :
                        LoadTranscript(TRUE, data)
    \/ pc = "idle" /\ LoadTranscript(FALSE, NoJson)

SpecLoad == Init /\ [][NextLoad]_vars

\* ------------------------------------------------------------ synthesis
\* make_mute and make_beep on durations of u / (SubSamples * SAMPLE_RATE)
\* seconds, that is u / SubSamples samples
SynthUnits == 0..MaxSynthUnits

MakeMute(u) ==
    /\ pc = "idle"
    /\ pc' = "muted"
    /\ synthesized' = [synthesized EXCEPT
                         !.mute_units = u,
                         !.mute = make_mute(u, SubSamples * SAMPLE_RATE)]
    /\ UNCHANGED << curse_base, word, verdict, transcript, scan_args, cursed_words,
                    intervals >>
    /\ UNCHANGED scanVars
    /\ UNCHANGED << duration, fileVars >>
    /\ UNCHANGED loadVars
    /\ UNCHANGED audioVars

MakeBeep(u) ==
    /\ pc = "muted"
    /\ pc' = "beeped"
    /\ synthesized' = [synthesized EXCEPT
                         !.beep_units = u,
                         !.beep = make_beep(u, SubSamples * SAMPLE_RATE)]
    /\ UNCHANGED << curse_base, word, verdict, transcript, scan_args, cursed_words,
                    intervals >>
    /\ UNCHANGED scanVars
    /\ UNCHANGED << duration, fileVars >>
    /\ UNCHANGED loadVars
    /\ UNCHANGED audioVars

NextSynth ==
    \/ pc = "idle" /\ \E u \in SynthUnits : MakeMute(u)
    \/ pc = "muted" /\ \E u \in SynthUnits : MakeBeep(u)

SpecSynth == Init /\ [][NextSynth]_vars

\* ------------------------------------------------------------ main script
\* The main script, run on an input without a stored transcript and run again
\* on the same input and the same word lists: CurseBase, transcribe_audio or
\* load_transcript, censor_words with its defaults, generate_ffmpeg_times,
\* censor_audio, and the save step.  The audio and media files the save step
\* writes are left out.

\* save_srt(transcript.segments, fm.subtitles_srt); save_transcript(fm, transcript)
SaveStep ==
    /\ pc = "done"
    /\ raised = "none"
    /\ pc' = "saved"
    /\ subtitles' = save_srt(transcript, DefaultCensorFmt)
    /\ original_file' = save_transcript(transcript, duration)
    /\ previous_run' = [count |-> previous_run.count + 1,
                        intervals |-> intervals,
                        censored_audio |-> censored_audio]
    /\ UNCHANGED << edit_file, current_flags, returned_flags, file_error >>
    /\ UNCHANGED << curse_base, word, verdict, transcript, scan_args, cursed_words,
                    intervals, duration >>
    /\ UNCHANGED << scanned_from, windows >>
    /\ UNCHANGED << json_data, loaded, synthesized >>
    /\ UNCHANGED audioVars

\* the script started again: the transcript file exists, so
\* transcript = load_transcript(fm)
RunAgain ==
    /\ pc = "saved"
    /\ previous_run.count < MaxRuns
    /\ original_file.exists
    /\ pc' = "transcribed"
    /\ json_data' = original_file.data
    /\ loaded' = load_transcript(TRUE, original_file.data)
    /\ transcript' = load_transcript(TRUE, original_file.data).segments
    /\ duration' = original_file.data.duration
    /\ UNCHANGED fileVars
    /\ UNCHANGED << curse_base, word, verdict, scan_args, cursed_words, intervals >>
    /\ UNCHANGED << scanned_from, windows >>
    /\ UNCHANGED synthVars
    /\ UNCHANGED audioVars

NextMain ==
    \/ pc = "idle" /\ \E b \in PipelineBases :
                        NewCurseBase(b.curse_words, b.whitelist, b.fuzzy_threshold)
    \/ pc = "base" /\ ~original_file.exists
         /\ \E segs \in Transcripts, n \in 0..MaxLenTicks : Transcribe(segs, n)
    \/ CensorWords(DefaultReplacement, 1, TRUE)
    \/ GenerateTimes
    \/ pc = "times" /\ \E m \in Modes : CensorFlagged(m)
    \/ SaveStep
    \/ RunAgain

SpecMain == Init /\ [][NextMain]_vars

\* ------------------------------------------------------------ flag sessions
\* A caller of the file operations: it holds a FileManager, a Transcript and
\* a flags dictionary.  It stores transcripts and builds its flags at the
\* start, and then calls the other operations in any order, any number of
\* times.

\* word i of a stored transcript: spoken from tick i - 1 to tick i, the
\* first one transcribed with a leading space
FileText(i) == IF i = 1 THEN << " ", "a" >> ELSE << "e" >>

FileWordLists ==
    UNION { { [i \in 1..n |-> Word(FileText(i), i - 1, i, c[i])] :
                c \in [1..n -> BOOLEAN] } : n \in 0..MaxTranscriptWords }

FileTranscripts ==
    UNION { { << SubSeq(ws, 1, cut), SubSeq(ws, cut + 1, Len(ws)) >> :
                cut \in 0..Len(ws) } : ws \in FileWordLists }

\* the flags dictionaries a caller builds: no segment, or one segment with
\* any words; the ones with more segments come from the load operations
FlagIndices == (-MaxNegativeIndex)..MaxFlagIndex
FlagMaps ==
    { << >> } \cup
    UNION { { [k \in {seg} |-> words] :
                words \in UNION { [W -> BOOLEAN] : W \in SUBSET FlagIndices } } :
            seg \in FlagIndices }

FilePcs ==
    { "idle", "flags", "saved_transcript", "saved_flags", "loaded_transcript",
      "loaded_original", "loaded_editable", "reset", "applied", "applied_edit" }

\* the variables of the other runs
otherVars ==
    << audio, segments, mode, censored_audio, raised, cursors, aliased,
       curse_base, word, verdict, scan_args, cursed_words, intervals,
       scanned_from, windows, synthesized, subtitles, previous_run >>

\* current_flags = {...}: the caller builds a flags dictionary
TakeFlags(flags) ==
    /\ pc' = "flags"
    /\ current_flags' = [keys |-> "int", map |-> flags]
    /\ returned_flags' = NoFlags
    /\ file_error' = "none"
    /\ UNCHANGED << original_file, edit_file, transcript, duration, json_data, loaded >>
    /\ UNCHANGED otherVars

\* save_transcript(fm, transcript) with a transcript the caller holds
SaveTranscript(segs) ==
    /\ pc' = "saved_transcript"
    /\ transcript' = segs
    /\ duration' = MaxTranscriptWords
    /\ original_file' = save_transcript(segs, MaxTranscriptWords)
    /\ returned_flags' = NoFlags
    /\ file_error' = "none"
    /\ UNCHANGED << edit_file, current_flags, json_data, loaded >>
    /\ UNCHANGED otherVars

\* save_censored_flags(fm, current_flags)
SaveCensoredFlags ==
    /\ current_flags # NoFlags
    /\ pc' = "saved_flags"
    /\ edit_file' = save_censored_flags(current_flags)
    /\ returned_flags' = NoFlags
    /\ file_error' = "none"
    /\ UNCHANGED << original_file, current_flags, transcript, duration, json_data, loaded >>
    /\ UNCHANGED otherVars

\* transcript = load_transcript(fm); None leaves the caller without transcript
LoadStoredTranscript ==
    /\ pc' = "loaded_transcript"
    /\ json_data' = original_file.data
    /\ loaded' = load_transcript(original_file.exists, original_file.data)
    /\ transcript' = load_transcript(original_file.exists, original_file.data).segments
    /\ duration' = IF original_file.exists THEN original_file.data.duration ELSE 0
    /\ returned_flags' = NoFlags
    /\ file_error' = load_transcript(original_file.exists, original_file.data).raised
    /\ UNCHANGED << original_file, edit_file, current_flags >>
    /\ UNCHANGED otherVars

\* current_flags = load_original_file(fm)
LoadOriginalFile ==
    /\ pc' = "loaded_original"
    /\ LET r == load_original_file(original_file)
       IN  /\ returned_flags' = r.flags
           /\ current_flags' = IF r.raised = "none" THEN r.flags ELSE current_flags
           /\ file_error' = r.raised
    /\ UNCHANGED << original_file, edit_file, transcript, duration, json_data, loaded >>
    /\ UNCHANGED otherVars

\* current_flags = load_editable_file(fm)
LoadEditableFile ==
    /\ pc' = "loaded_editable"
    /\ LET r == load_editable_file(edit_file)
       IN  /\ returned_flags' = r.flags
           /\ current_flags' = IF r.raised = "none" THEN r.flags ELSE current_flags
           /\ file_error' = r.raised
    /\ UNCHANGED << original_file, edit_file, transcript, duration, json_data, loaded >>
    /\ UNCHANGED otherVars

\* reset_censorship(current_flags)
ResetCensorship ==
    /\ current_flags # NoFlags
    /\ pc' = "reset"
    /\ returned_flags' = reset_censorship(current_flags).result
    /\ current_flags' = reset_censorship(current_flags).arg
    /\ file_error' = "none"
    /\ UNCHANGED << original_file, edit_file, transcript, duration, json_data, loaded >>
    /\ UNCHANGED otherVars

\* apply_censored_flags(fm, current_flags), or apply_censored_flags(fm)
\* when no flags are given
ApplyCensoredFlags(given) ==
    /\ given => current_flags # NoFlags
    /\ pc' = IF given THEN "applied" ELSE "applied_edit"
    /\ LET r == apply_censored_flags(original_file, edit_file,
                                     IF given THEN current_flags ELSE NoFlags)
       IN  /\ original_file' = r.file
           /\ file_error' = r.raised
    /\ returned_flags' = NoFlags
    /\ UNCHANGED << edit_file, current_flags, transcript, duration, json_data, loaded >>
    /\ UNCHANGED otherVars

NextFiles ==
    \/ pc \in {"idle", "saved_transcript"} /\ \E flags \in FlagMaps : TakeFlags(flags)
    \/ pc \in {"idle", "saved_transcript"}
         /\ \E segs \in FileTranscripts : SaveTranscript(segs)
    \/ pc \in FilePcs /\ SaveCensoredFlags
    \/ pc \in FilePcs /\ LoadStoredTranscript
    \/ pc \in FilePcs /\ LoadOriginalFile
    \/ pc \in FilePcs /\ LoadEditableFile
    \/ pc \in FilePcs /\ ResetCensorship
    \/ pc \in FilePcs /\ \E given \in BOOLEAN : ApplyCensoredFlags(given)

SpecFiles == Init /\ [][NextFiles]_vars

\* ------------------------------------------------------------ resets
\* reset_censorship on a dictionary the caller built, and on the flags of a
\* stored transcript
NextReset ==
    \/ pc = "idle" /\ \E flags \in FlagMaps : TakeFlags(flags)
    \/ pc = "idle" /\ \E segs \in FileTranscripts : SaveTranscript(segs)
    \/ pc = "saved_transcript" /\ LoadOriginalFile
    \/ pc \in {"flags", "loaded_original"} /\ ResetCensorship

SpecReset == Init /\ [][NextReset]_vars

\* ------------------------------------------------------------ claims
Done == pc = "done"
Returned == pc = "done" /\ raised = "none"

\* the buffer holds a whole number of milliseconds
AudioWholeMs(a) == (NFrames(a) * 1000) % SAMPLE_RATE = 0

\* the time t (ticks) is a whole number of milliseconds
WholeMs(t) == t % TicksPerMs = 0

\* the time t (ticks) lies in [0, duration(a)]
InBuffer(t, a) == t >= 0 /\ t * SAMPLE_RATE <= NFrames(a) * 1000 * TicksPerMs

\* frame position p (1-based) lies in the time range of the interval iv
FrameInInterval(p, iv) ==
    /\ (p - 1) * 1000 * TicksPerMs >= iv[1] * SAMPLE_RATE
    /\ (p - 1) * 1000 * TicksPerMs < iv[2] * SAMPLE_RATE

FrameInUnion(p, segs) == \E i \in 1..Len(segs) : FrameInInterval(p, segs[i])

\* a proper interval on millisecond bounds inside the buffer
PlainInterval(iv, a) ==
    /\ WholeMs(iv[1]) /\ WholeMs(iv[2])
    /\ InBuffer(iv[1], a) /\ InBuffer(iv[2], a)
    /\ iv[1] < iv[2]

\* C1: for every original buffer and every interval list, in either mode,
\* the buffer returned by censor_audio has the length of the original
\* (len(), in milliseconds).
C1_DurationInvariant ==
    Returned => LenMs(censored_audio) = LenMs(audio)

\* C2: round trip censor_words, generate_ffmpeg_times, censor_audio in mode
\* "mute": every output sample whose time lies in the time range of a
\* produced interval is zero, every other output sample is the original
\* sample of the same position.  Stated for a buffer of whole milliseconds.
C2_RoundTripMute ==
    (pc = "done" /\ raised = "none" /\ mode = "mute" /\ AudioWholeMs(audio))
    => \A p \in 1..NFrames(censored_audio) :
         IF FrameInUnion(p, intervals)
         THEN FrameAt(censored_audio, p) = Silence
         ELSE FrameAt(censored_audio, p) = OrigFrame(p)

\* C3: unsorted, duplicate or overlapping intervals do not corrupt the
\* output: positions inside the union of the intervals hold replacement
\* audio, every position outside holds the original sample of that position.
\* Stated for proper intervals on millisecond bounds inside a buffer of whole
\* milliseconds, where nothing but the overlap is at play.
C3_OverlapIsUnion ==
    ( /\ Returned
      /\ AudioWholeMs(audio)
      /\ \A i \in 1..Len(segments) : PlainInterval(segments[i], audio) )
    => /\ NFrames(censored_audio) = NFrames(audio)
       /\ \A p \in 1..NFrames(audio) :
            IF FrameInUnion(p, segments)
            THEN FrameAt(censored_audio, p) <= 0
            ELSE FrameAt(censored_audio, p) = OrigFrame(p)

\* C4: censor_audio(original, []) returns a buffer identical in content and
\* length to the original, for every original buffer.
C4_EmptyListIdentity ==
    (Returned /\ segments = << >>) => censored_audio = audio

\* C5: the output of censor_audio has exactly as many sample frames as the
\* input.  Stated for a buffer of whole milliseconds and proper intervals
\* inside it, sorted and disjoint, so that only the two independent
\* conversions (bounds to milliseconds, durations to samples) are at play.
SortedDisjoint(segs) ==
    \A i \in 1..(Len(segs) - 1) : segs[i][2] <= segs[i + 1][1]

ProperInside(iv, a) ==
    InBuffer(iv[1], a) /\ InBuffer(iv[2], a) /\ iv[1] < iv[2]

C5_SameFrameCount ==
    ( /\ Returned
      /\ AudioWholeMs(audio)
      /\ SortedDisjoint(segments)
      /\ \A i \in 1..Len(segments) : ProperInside(segments[i], audio) )
    => NFrames(censored_audio) = NFrames(audio)

\* C6: no drift accumulates: for sorted, disjoint intervals inside the buffer,
\* every original sample that appears in the output appears at an offset
\* that differs from its own by less than one millisecond of frames (the
\* error of a single rounding), however many intervals precede it.
DriftBoundFrames == FrameCount(1) - 1

Abs(x) == IF x < 0 THEN -x ELSE x

C6_NoDriftAccumulates ==
    ( /\ Returned
      /\ AudioWholeMs(audio)
      /\ SortedDisjoint(segments)
      /\ \A i \in 1..Len(segments) : ProperInside(segments[i], audio) )
    => \A p \in 1..NFrames(censored_audio) :
         FrameAt(censored_audio, p) > 0
           => Abs(FrameAt(censored_audio, p) - OrigFrame(p)) <= DriftBoundFrames

\* C7: an interval reaching outside [0, duration(original)] is clamped to
\* that range: the call does not raise and the result is that of the clamped
\* interval.  Stated for a single interval on millisecond bounds that
\* overlaps a buffer of whole milliseconds.
DurationTicks(a) == (NFrames(a) * 1000 * TicksPerMs) \div SAMPLE_RATE

ClampTick(t, a) == Max(0, Min(t, DurationTicks(a)))

ClampInterval(iv, a) == << ClampTick(iv[1], a), ClampTick(iv[2], a) >>

C7_OutOfRangeClamped ==
    ( /\ Done
      /\ AudioWholeMs(audio)
      /\ Len(segments) = 1
      /\ WholeMs(segments[1][1]) /\ WholeMs(segments[1][2])
      /\ ClampInterval(segments[1], audio)[1] < ClampInterval(segments[1], audio)[2] )
    => /\ raised = "none"
       /\ censored_audio =
            censor_audio(audio, << ClampInterval(segments[1], audio) >>, mode).out

\* C8: an interval with end <= start is skipped: no raise, and the output is
\* that of the list without the interval.
WithoutEmptyIntervals(segs) == SelectSeq(segs, LAMBDA iv : iv[1] < iv[2])

C8_EmptyIntervalSkipped ==
    (Done /\ \E i \in 1..Len(segments) : segments[i][2] <= segments[i][1])
    => /\ raised = "none"
       /\ censored_audio =
            censor_audio(audio, WithoutEmptyIntervals(segments), mode).out

C10_WhitelistPrecedence ==
    (pc = "checked" /\ \E white \in curse_base.whitelist : Contains(white, word))
    => verdict = FALSE

\* ------------------------------------------------------------ claims on scans
\* a censor_words call has returned
AfterScan == pc \in {"scanned", "rescanned"}

\* the references the flagged list holds
Flagged == { cursed_words[k] : k \in 1..Len(cursed_words) }

\* the word a reference pointed to when the call began
AtEntry(ref) == scanned_from[ref[1]][ref[2]]

\* the words of a classified window
WindowRefs(w) == { << w.si, wi >> : wi \in w.first..(w.first + w.size - 1) }

\* C11: a second censor_words, with the same curse base, replacement, window
\* size and strict flag, on the segments the first one returned flags no word
\* and changes no word's text or censored flag
C11_IdempotentScan ==
    pc = "rescanned" => (cursed_words = << >> /\ transcript = scanned_from)

\* C12: in one call of censor_words a word whose censored flag is already
\* true is not appended to the flagged list, and no word is in the returned
\* list more than once
C12_NeverFlaggedAgain ==
    AfterScan =>
        /\ \A ref \in Flagged : ~AtEntry(ref).censored
        /\ \A i, j \in 1..Len(cursed_words) :
              i # j => cursed_words[i] # cursed_words[j]

\* C13: with strict_window_censor the words marked are words that pass
\* is_curse on their own, and in the window-merge scenario (base {"blyad"},
\* tokens "bl" and "yad'", window_size 2) no word is marked
C13_StrictWindow ==
    (pc = "scanned" /\ scan_args.strict) =>
        /\ \A ref \in Flagged : is_curse(AtEntry(ref).text, curse_base)
        /\ (/\ curse_base = ExampleBase
            /\ scanned_from = ExampleSegments
            /\ scan_args.window_size = 2)
             => (cursed_words = << >> /\ transcript = scanned_from)

C15_WindowsPerSegment ==
    AfterScan =>
        /\ \A k \in 1..Len(windows) :
              /\ windows[k].si \in 1..Len(scanned_from)
              /\ windows[k].size \in 2..scan_args.window_size
              /\ windows[k].first >= 1
              /\ windows[k].first + windows[k].size - 1
                    <= Len(scanned_from[windows[k].si])
        /\ \A si \in 1..Len(scanned_from) : \A size \in 2..scan_args.window_size :
              Cardinality({ k \in 1..Len(windows) :
                              windows[k].si = si /\ windows[k].size = size })
                = Max(0, Len(scanned_from[si]) - size + 1)
        /\ \A ref \in Flagged :
              \/ is_curse(AtEntry(ref).text, curse_base)
              \/ \E k \in 1..Len(windows) :
                    windows[k].hit /\ ref \in WindowRefs(windows[k])

\* a phrase split over two segments: the last word of the first and the
\* first word of the second join to a curse, windows are on, all words of a
\* matched window would be flagged, and neither word is
C15_Witness ==
    /\ pc = "scanned"
    /\ ~scan_args.strict
    /\ scan_args.window_size >= 2
    /\ Len(scanned_from) = 2
    /\ scanned_from[1] # << >>
    /\ scanned_from[2] # << >>
    /\ is_curse(scanned_from[1][Len(scanned_from[1])].text \o scanned_from[2][1].text,
                curse_base)
    /\ cursed_words = << >>
    /\ transcript = scanned_from
    /\ windows = << >>

\* ------------------------------------------------------------ claims on the projection
\* C16: generate_ffmpeg_times returns one interval per flagged word, in the
\* order of the flagged list, the i-th being (start_time, end_time) of the
\* i-th word; it sorts, merges and removes nothing and leaves the words as
\* they are
C16_PureProjection ==
    [][(pc = "scanned" /\ pc' = "times") =>
          /\ transcript' = transcript
          /\ cursed_words' = cursed_words
          /\ Len(intervals') = Len(cursed_words)
          /\ \A i \in 1..Len(cursed_words) :
                LET w == transcript[cursed_words[i][1]][cursed_words[i][2]]
                IN  intervals'[i] = << w.start_time, w.end_time >>]_vars

\* the projection of a flagged list that is not in time order
C16_Witness ==
    /\ pc = "times"
    /\ Len(intervals) >= 2
    /\ Len(intervals) = Len(cursed_words)
    /\ intervals[1][1] > intervals[2][1]

\* ------------------------------------------------------------ claims on the configuration
InvalidScanConfig ==
    \/ curse_base.fuzzy_threshold \notin 0..100
    \/ scan_args.window_size < 1

\* C17: a fuzzy threshold outside 0..100, a window size below 1 or a mode
\* other than the two known ones is rejected with an error before any scan
\* or splice: no word is mutated and no output audio is produced
C17_InvalidConfigRejected ==
    /\ (pc = "scanned" /\ InvalidScanConfig) =>
          (raised # "none" /\ transcript = scanned_from /\ cursed_words = << >>)
    /\ (pc = "done" /\ mode \notin Modes) =>
          (raised # "none" /\ censored_audio = << >>)

\* ------------------------------------------------------------ claims on loading
\* the value has the shape the docstring of validate_transcript_structure
\* gives, in the places the claim names: the root, the segments list, each
\* segment, each words list and the fields of each word
SchemaShaped(data) ==
    /\ data.t = "dict"
    /\ RootKeys \subseteq data.has
    /\ data.segments_t = "list"
    /\ \A i \in 1..Len(data.segments) :
          LET seg == data.segments[i]
          IN  /\ seg.t = "dict"
              /\ SegmentKeys \subseteq seg.has
              /\ seg.words_t = "list"
              /\ \A j \in 1..Len(seg.words) :
                    /\ seg.words[j].t = "dict"
                    /\ WordKeys \subseteq seg.words[j].has
                    /\ seg.words[j].ty = WordFieldTypes

\* C18: load_transcript validates the value before it relies on it: a value
\* with a missing field or a value of a wrong type makes validation raise and
\* no Word, Segment or Transcript is built; a value of the schema shape
\* passes validation and is loaded
C18_ValidatedBeforeUse ==
    (pc = "read" /\ loaded.returned # "None") =>
        IF SchemaShaped(json_data)
        THEN loaded.validated /\ loaded.returned = "Transcript"
        ELSE /\ loaded.returned = "raised"
             /\ loaded.raised \in {"TypeError", "KeyError"}
             /\ ~loaded.validated
             /\ loaded.built = 0

\* ------------------------------------------------------------ claims on synthesis
\* every frame of the buffer is silence
AllZero(data) == \A i \in 1..Len(data) : data[i].k = "z"

\* the buffer holds round(duration * SAMPLE_RATE) frames, the duration being
\* u / (SubSamples * SAMPLE_RATE) seconds
FramesRounded(buf, u) ==
    ~buf.err /\ NFrames(buf.data) = PyRound(u, SubSamples)

\* the buffer holds n frames with n <= duration * SAMPLE_RATE < n + 1
FramesTruncated(buf, u) ==
    /\ ~buf.err
    /\ NFrames(buf.data) * SubSamples <= u
    /\ u < (NFrames(buf.data) + 1) * SubSamples

\* C20 as stated: make_mute and make_beep return exactly
\* round(duration * SAMPLE_RATE) frames, the same count for the same
\* duration, and the make_mute buffer is all zero
C20_RoundedSampleCount ==
    pc = "beeped" =>
        /\ FramesRounded(synthesized.mute, synthesized.mute_units)
        /\ FramesRounded(synthesized.beep, synthesized.beep_units)
        /\ synthesized.mute_units = synthesized.beep_units =>
              NFrames(synthesized.mute.data) = NFrames(synthesized.beep.data)
        /\ AllZero(synthesized.mute.data)

\* C20 as amended: make_mute and make_beep return exactly
\* int(duration * SAMPLE_RATE) frames, the product truncated and not rounded
\* to nearest, the same count for the same duration, and the make_mute
\* buffer is all zero
C20_TruncatedSampleCount ==
    pc = "beeped" =>
        /\ FramesTruncated(synthesized.mute, synthesized.mute_units)
        /\ FramesTruncated(synthesized.beep, synthesized.beep_units)
        /\ synthesized.mute_units = synthesized.beep_units =>
              NFrames(synthesized.mute.data) = NFrames(synthesized.beep.data)
        /\ AllZero(synthesized.mute.data)

\* both buffers made for one duration whose sample count has a fractional
\* part of a half or more, where truncating and rounding differ
C20_Witness ==
    /\ pc = "beeped"
    /\ synthesized.mute_units = synthesized.beep_units
    /\ 2 * (synthesized.mute_units % SubSamples) >= SubSamples
    /\ NFrames(synthesized.mute.data) >= 1
    /\ NFrames(synthesized.beep.data) = NFrames(synthesized.mute.data)

\* ------------------------------------------------------------ more claims on scans
\* the references to the words of segs whose censored flag is set
CensoredRefs(segs) ==
    { ref \in (1..Len(segs)) \X (1..MaxTranscriptWords + 1) :
        ref[2] <= Len(segs[ref[1]]) /\ segs[ref[1]][ref[2]].censored }

\* C25: with strict_window_censor the window pass flags no word: the set of
\* censored words and the returned flagged list are those of the same call
\* with window_size 1, whatever the window size
C25_StrictWindowFlagsNothing ==
    (AfterScan /\ scan_args.strict) =>
        LET single == censor_words(scanned_from, curse_base,
                                   scan_args.replacement, 1, TRUE)
        IN  /\ CensoredRefs(transcript) = CensoredRefs(single.segs)
            /\ cursed_words = single.cursed

\* a strict scan with a matched window that holds a word left unflagged
C25_Witness ==
    /\ pc = "scanned"
    /\ scan_args.strict
    /\ scan_args.window_size >= 2
    /\ \E k \in 1..Len(windows) :
          /\ windows[k].hit
          /\ \E ref \in WindowRefs(windows[k]) :
                ~transcript[ref[1]][ref[2]].censored

\* C28: after censor_words a word of the scanned segments has censored set
\* if and only if it is in the returned flagged list, also when words came in
\* with censored set; so every censored word gets an interval
C28_CensoredIffFlagged ==
    AfterScan => CensoredRefs(transcript) = Flagged

\* ------------------------------------------------------------ more claims on censor_audio
\* every interval of the list is proper and lies inside the buffer
ProperIntervals ==
    \A i \in 1..Len(segments) :
        /\ segments[i][1] < segments[i][2]
        /\ InBuffer(segments[i][1], audio) /\ InBuffer(segments[i][2], audio)

\* C26: in censor_audio the cursor never moves backward from one interval
\* to the next, for nested and overlapping intervals too.  Stated for
\* proper intervals inside the buffer.
C26_CursorNeverBackward ==
    (Returned /\ ProperIntervals) =>
        \A i \in 1..(Len(cursors) - 1) : cursors[i] <= cursors[i + 1]

\* the lists that hold the elements of s, each as often as s does, in any order
Reorderings(s) ==
    { [i \in 1..Len(s) |-> s[f[i]]] :
        f \in { g \in [1..Len(s) -> 1..Len(s)] :
                  \A i, j \in 1..Len(s) : i # j => g[i] # g[j] } }

\* C27: the result of censor_audio does not depend on the order of the
\* interval list: every permutation of the list gives the same output.
\* Stated for proper intervals inside the buffer.
C27_OrderIndependent ==
    (Returned /\ ProperIntervals) =>
        \A p \in Reorderings(segments) :
            LET st == censor_audio(audio, p, mode)
            IN  st.raised = "none" /\ st.out = censored_audio

\* ------------------------------------------------------------ claims on the main script
\* C24: in the subtitles made of a transcript scanned by censor_words a word
\* that is not censored is rendered as its text, and a censored word is
\* rendered as the censor_fmt with the text the word had before the scan in
\* the place of "{word}" (as the censor_fmt itself when it has no "{word}").
\* Stated for the first run, where the words come from the transcription.
C24_SubtitleKeepsWord ==
    (pc = "saved" /\ previous_run.count = 1) =>
        \A e \in 1..Len(subtitles) :
            \A j \in 1..Len(subtitles[e].words) :
                LET w    == transcript[subtitles[e].idx][j]
                    orig == scanned_from[subtitles[e].idx][j]
                IN  subtitles[e].words[j] =
                        IF ~w.censored THEN orig.text
                        ELSE encode_word([orig EXCEPT !.censored = TRUE],
                                         DefaultCensorFmt)

\* C30: a run of the main script that loads the transcript the run before
\* stored computes the list of intervals and the censored audio of that run
C30_RerunStable ==
    previous_run.count >= 1 =>
        /\ pc = "times" => intervals = previous_run.intervals
        /\ (pc = "done" /\ raised = "none")
              => censored_audio = previous_run.censored_audio

\* ------------------------------------------------------------ claims on the files
\* the positions a step leaves the caller in when it called an operation
\* other than apply_censored_flags
NotApplied ==
    { "saved_transcript", "saved_flags", "loaded_transcript", "loaded_original",
      "loaded_editable", "reset" }

\* C21: apply_censored_flags is the only operation that modifies the file
\* transcript_original_json: no call of save_transcript, save_censored_flags,
\* load_transcript, load_original_file, load_editable_file or
\* reset_censorship changes the content of the file once it exists
C21_OnlyApplyWritesOriginal ==
    [][(pc' \in NotApplied /\ original_file.exists)
          => original_file' = original_file]_vars

\* the stored transcript data with the flags of map set: every word that
\* has an entry in map under its segment index and its word index
\* (0-based) takes the value of the entry, and nothing else differs
WithFlags(data, map) ==
    [data EXCEPT !.segments =
        [i \in 1..Len(data.segments) |->
            [data.segments[i] EXCEPT !.words =
                [j \in 1..Len(data.segments[i].words) |->
                    IF (i - 1) \in DOMAIN map /\ (j - 1) \in DOMAIN map[i - 1]
                    THEN [data.segments[i].words[j]
                            EXCEPT !.censored = map[i - 1][j - 1]]
                    ELSE data.segments[i].words[j]]]]]

\* C22: apply_censored_flags with flags given changes the censored value of
\* the words the flags address and nothing else: entries whose segment or
\* word index is not an index of the stored transcript are ignored without
\* error, and texts, times, duration and all other words stay as stored
C22_ApplyChangesFlagsOnly ==
    [][(pc' = "applied" /\ original_file.exists) =>
          /\ file_error' = "none"
          /\ original_file' =
                [exists |-> TRUE,
                 data |-> WithFlags(original_file.data, current_flags.map)]]_vars

C29_EditableRoundTrip ==
    [][/\ (pc' = "loaded_editable" /\ edit_file.exists)
             => returned_flags'.map = edit_file.data.map
       /\ (pc' = "applied_edit" /\ edit_file.exists /\ original_file.exists
             /\ file_error' = "none")
             => \A i \in 1..Len(original_file.data.segments) :
                  \A j \in 1..Len(original_file.data.segments[i].words) :
                     ((i - 1) \in DOMAIN edit_file.data.map
                        /\ (j - 1) \in DOMAIN edit_file.data.map[i - 1])
                     => original_file'.data.segments[i].words[j].censored
                          = edit_file.data.map[i - 1][j - 1]]_vars

====
